---------------------------- MODULE Spec2Model ----------------------------
(***************************************************************************)
(* State-machine model of the PolyCzar automated market maker              *)
(* (src/src/utils/amm.js): the liquidityPools map of the AMM singleton and *)
(* the operations that read and write it, and of the pricing engine's     *)
(* MarketMonitor and VolatilityService (src/src/utils/optionsPricing.js):  *)
(* snapshots, polling intervals, listeners and the volatility cache.  Spec *)
(* and StepSpec run the AMM, MonitorSpec the monitor, VolSpec the cache,   *)
(* RefreshSpec the monitor and the cache together under the fairness of    *)
(* the event loop, EstimateSpec the two volatility estimators, PriceSpec   *)
(* the price model and DataSpec the MarketDataService.                     *)
(*                                                                         *)
(* Numbers.  Order sizes and liquidity are whole units; liquidity is only  *)
(* ever changed by multiples of 10, so "liquidity * 0.1" is exact.         *)
(* Prices, slippage and factors are fixed point with FP parts per unit     *)
(* (FP = 10000, i.e. 0.0001), rounded down.  A JavaScript number that may  *)
(* be NaN is the record [nan, v]; the quotient of line 118 is kept exact   *)
(* as the pair [n, d] (d = 0 is JavaScript's NaN or Infinity).             *)
(***************************************************************************)
EXTENDS Integers, Sequences, FiniteSets, TLC

VARIABLES
  liquidityPools,  \* this.liquidityPools: optionId -> pool (a partial map)
  now,             \* the wall clock read by new Date(), in ticks
  steps,           \* calls made and clock ticks seen so far (bounds the run)
  result,          \* what the last call handed back to its caller
  inflight,        \* invocations that have started and not yet returned
  committed,       \* liquidityPools as of the last completed invocation
  markets,         \* MarketMonitor.markets: marketId -> last stored snapshot
  pollingIntervals,\* MarketMonitor.pollingIntervals: the ids with a live interval
  listeners,       \* MarketMonitor.listeners, in registration order
  handles,         \* the unsubscribe closures addListener has handed out
  fetches,         \* fetchAndUpdate invocations waiting for the feed, per id
  volatilityCache, \* VolatilityService.volatilityCache: marketId -> volatility
  recomputes,      \* updateVolatilityEstimate invocations not yet settled, per id
  event,           \* what the last monitor or volatility step did
  subscribers,     \* OptionsPricingEngine.listeners, in registration order
  marketDataService \* the MarketDataService singleton: markets, initialized,
                    \* and its calls awaiting polymarketService.getMarkets

ammVars == <<liquidityPools, now, result, inflight, committed>>

engineVars == <<markets, pollingIntervals, listeners, handles, fetches,
                volatilityCache, recomputes, event, subscribers, marketDataService>>

vars == <<liquidityPools, now, steps, result, inflight, committed,
          markets, pollingIntervals, listeners, handles, fetches,
          volatilityCache, recomputes, event, subscribers, marketDataService>>

-----------------------------------------------------------------------------
(* Bounds of the model *)

MaxSteps == 3

MaxInflight == 2

MaxEvents == 5

MaxVolEvents == 6

\* calls of the MarketDataService in one run
MaxDataCalls == 3

(* Fixed point and time units *)

FP == 10000

HourTicks == 2

Epoch == 2

(* Inputs *)

DemoOptionIds == {"btc-usd-CALL-0.5"}

OptionIds == {"m1"} \cup DemoOptionIds

Directions == {"buy", "sell"}

TradeAmounts == {-1, 0, 1, 2}

LiquidityAmounts == {-10, 10, 20}

InitialPrices == {0, 5000}

-----------------------------------------------------------------------------
(* JavaScript arithmetic *)

Min(a, b) == IF a <= b THEN a ELSE b

Max(a, b) == IF a >= b THEN a ELSE b

Abs(a) == IF a < 0 THEN -a ELSE a

NaN == [nan |-> TRUE, v |-> 0]

Num(x) == [nan |-> FALSE, v |-> x]

\* Math.min(x, c) and Math.max(x, c) for a constant c: NaN in, NaN out
JSMin(x, c) == IF x.nan THEN NaN ELSE Num(Min(x.v, c))

JSMax(x, c) == IF x.nan THEN NaN ELSE Num(Max(x.v, c))

\* n / d of line 118, kept exact; d = 0 is NaN (n = 0) or Infinity (n # 0)
JSDiv(n, d) == [n |-> n, d |-> d]

Zero == [n |-> 0, d |-> 1]

RECURSIVE SqrtSearch(_, _, _)
SqrtSearch(x, lo, hi) ==
  IF lo >= hi THEN lo
  ELSE LET mid == (lo + hi + 1) \div 2
       IN  IF mid * mid <= x THEN SqrtSearch(x, mid, hi)
                             ELSE SqrtSearch(x, lo, mid - 1)

ISqrt(x) == SqrtSearch(x, 0, 46340)

\* Math.pow(a / l, 1.5) * 0.5 for a / l > 0, in FP parts
PowThreeHalvesHalf(a, l) ==
  LET q == ISqrt(Min((a * 10000 * FP) \div l, 2000000000))
  IN  (a * q) \div (2 * l)

TenPercent(liquidity) == (liquidity * 1) \div 10

-----------------------------------------------------------------------------
(* AMM helpers *)

calculateSlippage(orderSize, poolLiquidity) ==
  IF poolLiquidity = 0
  THEN IF orderSize = 0 THEN NaN ELSE Num(2000)
  ELSE IF orderSize = 0 THEN Num(0)
  ELSE IF (orderSize < 0) # (poolLiquidity < 0) THEN NaN
  ELSE Num(Min(2000, PowThreeHalvesHalf(Abs(orderSize), Abs(poolLiquidity))))

NullTime == -1

NewPool(initialPrice, t) ==
  [ liquidity |-> 0,
    totalVolume |-> 0,
    buyVolume |-> 0,
    sellVolume |-> 0,
    imbalanceRatio |-> Zero,
    maxOrderSize |-> 0,
    lastPrice |-> [ bidPrice |-> (initialPrice * 95) \div 100,
                    midPrice |-> initialPrice,
                    askPrice |-> (initialPrice * 105) \div 100,
                    timestamp |-> t ],
    lastTradeAmount |-> 0,
    lastTradeDirection |-> "null",
    lastTradeTimestamp |-> NullTime ]

HasPool(pools, optionId) == optionId \in DOMAIN pools

\* Map.set(optionId, pool)
MapSet(pools, optionId, pool) ==
  [k \in DOMAIN pools \cup {optionId} |-> IF k = optionId THEN pool ELSE pools[k]]


calculateLiquidityFactor(pool, t) ==
  LET liquidityScale == Min(FP, Max(FP \div 10, (pool.liquidity * FP) \div 10000))
      r == pool.imbalanceRatio
      imbalanceFactor ==
        IF r.d = 0 THEN (IF r.n = 0 THEN NaN ELSE Num(2 * FP))
        ELSE Num(Min(2 * FP, FP + (3 * FP * r.n) \div r.d))
      recentActivityDiscount ==
        IF pool.lastTradeTimestamp # NullTime
        THEN Max(FP \div 2, FP - ((t - pool.lastTradeTimestamp) * FP) \div HourTicks)
        ELSE 0
      part == (((FP * FP) \div liquidityScale)
                 * (FP - (recentActivityDiscount * 2) \div 10)) \div FP
  IN  IF imbalanceFactor.nan THEN NaN
      ELSE Num(((part \div 10) * imbalanceFactor.v) \div (FP \div 10))

\* lines 29-36 of getPrice, applied to the base quote of the pricing engine
adjustQuote(price, pool, t) ==
  LET liquidityFactor == calculateLiquidityFactor(pool, t)
      halfSpread == (price.askPrice - price.bidPrice) \div 2
      adjustedHalfSpread ==
        IF liquidityFactor.nan THEN NaN
        ELSE Num((halfSpread * (FP + liquidityFactor.v)) \div FP)
  IN  [ midPrice |-> Num(price.midPrice),
        bidPrice |-> IF adjustedHalfSpread.nan THEN NaN
                     ELSE Num(Max(0, price.midPrice - adjustedHalfSpread.v)),
        askPrice |-> IF adjustedHalfSpread.nan THEN NaN
                     ELSE Num(Min(FP, price.midPrice + adjustedHalfSpread.v)) ]

\* the quote the pricing engine hands to getPrice (bid and ask clamped to [0,1])
BaseQuote(mid, half) ==
  [ midPrice |-> mid, bidPrice |-> Max(0, mid - half), askPrice |-> Min(FP, mid + half) ]

BaseMids == {0, 5000}

BaseHalfSpreads == {500}

-----------------------------------------------------------------------------
(* The statements of the three mutating operations, as functions on a pool *)

\* addLiquidity, line 45
AddLiquidityL45(pool, amount) == [pool EXCEPT !.liquidity = @ + amount]

\* addLiquidity, line 48
AddLiquidityL48(pool) == [pool EXCEPT !.maxOrderSize = TenPercent(pool.liquidity)]

RemoveWhatWasAsked(pool, amount) == amount

\* removeLiquidity, line 66
AmountToRemove(pool, amount) == Min(amount, pool.liquidity)

\* removeLiquidity, line 68
RemoveLiquidityL68(pool, amountToRemove) == [pool EXCEPT !.liquidity = @ - amountToRemove]

\* removeLiquidity, line 71
RemoveLiquidityL71(pool) ==
  [pool EXCEPT !.maxOrderSize = Max(TenPercent(pool.liquidity), 0)]

ExceedsLiquidity(amount, pool) == amount > pool.liquidity

\* executeTrade, line 89
ExceedsMaxOrderSize(amount, pool) == amount > pool.maxOrderSize

\* executeTrade, lines 96-103
ExecutionPrice(pool, direction, slippage) ==
  IF slippage.nan THEN NaN
  ELSE IF direction = "buy"
       THEN JSMin(Num((pool.lastPrice.askPrice * (FP + slippage.v)) \div FP), 9900)
       ELSE JSMax(Num((pool.lastPrice.bidPrice * (FP - slippage.v)) \div FP), 100)

MovesQuote(pool, direction, amount, t) ==
  [pool EXCEPT !.lastTradeAmount = amount,
               !.lastTradeDirection = direction,
               !.lastTradeTimestamp = t,
               !.totalVolume = @ + amount,
               !.lastPrice.midPrice = @ + 1]

\* executeTrade, lines 106-109
ExecuteTradeL106(pool, direction, amount, t) ==
  [pool EXCEPT !.lastTradeAmount = amount,
               !.lastTradeDirection = direction,
               !.lastTradeTimestamp = t,
               !.totalVolume = @ + amount]

BothVolumes(pool, direction, amount) ==
  [pool EXCEPT !.buyVolume = @ + amount, !.sellVolume = @ + amount]

\* executeTrade, lines 112-116
ExecuteTradeL112(pool, direction, amount) ==
  IF direction = "buy"
  THEN [pool EXCEPT !.buyVolume = @ + amount]
  ELSE [pool EXCEPT !.sellVolume = @ + amount]

\* executeTrade, line 118
ExecuteTradeL118(pool) ==
  [pool EXCEPT !.imbalanceRatio = JSDiv(Abs(pool.buyVolume - pool.sellVolume), pool.totalVolume)]

-----------------------------------------------------------------------------
(* What a call hands back *)

NoQuote == [ midPrice |-> Num(0), bidPrice |-> Num(0), askPrice |-> Num(0) ]

BlankResult ==
  [ op |-> "none", optionId |-> "none", amount |-> 0, direction |-> "null",
    error |-> "none",
    executionPrice |-> Num(0), slippage |-> Num(0),
    amountRemoved |-> 0, totalLiquidity |-> 0, maxOrderSize |-> 0,
    quote |-> NoQuote, sawPool |-> FALSE, observed |-> NewPool(0, NullTime),
    base |-> [ midPrice |-> 0, bidPrice |-> 0, askPrice |-> 0 ] ]

Throw(op, optionId, amount, direction, error) ==
  [BlankResult EXCEPT !.op = op, !.optionId = optionId, !.amount = amount,
                      !.direction = direction, !.error = error]

-----------------------------------------------------------------------------
(* The pricing engine's market monitor and volatility service              *)
(* (src/src/utils/optionsPricing.js): their state after construction       *)

MarketIds == {"btc-usd", "eth-usd"}

\* a Map with no entries
EmptyMap == [k \in {} |-> 0]

\* no asynchronous invocation is waiting
NonePending == [m \in MarketIds |-> 0]

\* what a monitor or volatility step reports of itself; round is the list of
\* listener invocations the step made, in order
BlankEvent ==
  [ op |-> "none", marketId |-> "null", callback |-> "null", reg |-> 0,
    price |-> 0, hadPrevious |-> FALSE, previousPrice |-> 0,
    updateType |-> "null", round |-> << >>,
    timeToExpiry |-> 0, baseVol |-> 0, value |-> 0, pending |-> 0,
    wasMonitored |-> FALSE,
    engineRound |-> << >>, unsubAt |-> 0, unsubCallback |-> "null" ]

\* MarketDataService.constructor (MarketDataService.js, lines 5-8)
NewMarketDataService ==
  [ markets |-> "empty", initialized |-> FALSE, awaiting |-> << >> ]

Init ==
  /\ liquidityPools = [k \in {} |-> NewPool(0, NullTime)]
  /\ now = Epoch
  /\ steps = 0
  /\ result = BlankResult
  /\ inflight = {}
  /\ committed = liquidityPools
  /\ markets = EmptyMap
  /\ pollingIntervals = {}
  /\ listeners = << >>
  /\ handles = {}
  /\ fetches = NonePending
  /\ volatilityCache = EmptyMap
  /\ recomputes = NonePending
  /\ event = BlankEvent
  /\ subscribers = << >>
  /\ marketDataService = NewMarketDataService

MayInterleave(frames) == Cardinality(frames) < MaxInflight

\* JavaScript runs a synchronous function to completion: none of the AMM's
\* pool operations contains an await, so a call starts only when no other
\* call is part-way through
RunToCompletion(frames) == frames = {}

\* the caller has taken the previous call's result and is about to call again
Idle == result = BlankResult

\* a synchronous call taken as one step, from entry to return
Atomic == /\ Idle
          /\ RunToCompletion(inflight)
          /\ steps < MaxSteps
          /\ steps' = steps + 1
          /\ UNCHANGED <<now, inflight>>
          /\ UNCHANGED engineVars
          /\ committed' = IF inflight = {} THEN liquidityPools' ELSE committed

initializeLiquidityPool(optionId, initialPrice) ==
  /\ liquidityPools' = MapSet(liquidityPools, optionId, NewPool(initialPrice, now))
  /\ result' = [BlankResult EXCEPT !.op = "initializeLiquidityPool", !.optionId = optionId]
  /\ Atomic

\* line 43: this.liquidityPools.get(optionId) || this.initializeLiquidityPool(...)
GetOrInitialize(pools, optionId, initialPrice, t) ==
  IF HasPool(pools, optionId) THEN pools
  ELSE MapSet(pools, optionId, NewPool(initialPrice, t))

addLiquidity(optionId, amount, initialPrice) ==
  LET pools == GetOrInitialize(liquidityPools, optionId, initialPrice, now)
      pool == AddLiquidityL48(AddLiquidityL45(pools[optionId], amount))
  IN  /\ liquidityPools' = MapSet(pools, optionId, pool)
      /\ result' = [BlankResult EXCEPT !.op = "addLiquidity", !.optionId = optionId,
                                       !.amount = amount,
                                       !.totalLiquidity = pool.liquidity,
                                       !.maxOrderSize = pool.maxOrderSize]
      /\ Atomic

CreateIfAbsent(pools, optionId, t) == GetOrInitialize(pools, optionId, 5000, t)

\* lines 60 and 84: this.liquidityPools.get(optionId) reads the map and leaves it alone
Lookup(pools, optionId, t) == pools

removeLiquidity(optionId, amount) ==
  LET pools == Lookup(liquidityPools, optionId, now)
  IN  IF ~HasPool(pools, optionId)
      THEN /\ liquidityPools' = pools
           /\ result' = Throw("removeLiquidity", optionId, amount, "null", "NoPool")
           /\ Atomic
      ELSE LET amountToRemove == AmountToRemove(pools[optionId], amount)
               pool == RemoveLiquidityL71(RemoveLiquidityL68(pools[optionId], amountToRemove))
           IN  /\ liquidityPools' = MapSet(pools, optionId, pool)
               /\ result' = [BlankResult EXCEPT !.op = "removeLiquidity",
                                                !.optionId = optionId,
                                                !.amount = amount,
                                                !.amountRemoved = amountToRemove,
                                                !.totalLiquidity = pool.liquidity,
                                                !.maxOrderSize = pool.maxOrderSize]
               /\ Atomic

executeTrade(optionId, direction, amount) ==
  LET pools == Lookup(liquidityPools, optionId, now)
  IN  IF ~HasPool(pools, optionId)
      THEN /\ liquidityPools' = pools
           /\ result' = Throw("executeTrade", optionId, amount, direction, "NoPool")
           /\ Atomic
      ELSE IF ExceedsMaxOrderSize(amount, pools[optionId])
      THEN /\ liquidityPools' = pools
           /\ result' = Throw("executeTrade", optionId, amount, direction, "OrderTooLarge")
           /\ Atomic
      ELSE LET slippage == calculateSlippage(amount, pools[optionId].liquidity)
               executionPrice == ExecutionPrice(pools[optionId], direction, slippage)
               pool == ExecuteTradeL118(
                         ExecuteTradeL112(
                           ExecuteTradeL106(pools[optionId], direction, amount, now),
                           direction, amount))
           IN  /\ liquidityPools' = MapSet(pools, optionId, pool)
               /\ result' = [BlankResult EXCEPT !.op = "executeTrade",
                                                !.optionId = optionId,
                                                !.amount = amount,
                                                !.direction = direction,
                                                !.executionPrice = executionPrice,
                                                !.slippage = slippage]
               /\ Atomic

getPrice(optionId, price) ==
  /\ liquidityPools' = liquidityPools
  /\ result' = IF HasPool(liquidityPools, optionId)
               THEN [BlankResult EXCEPT !.op = "getPrice", !.optionId = optionId,
                                        !.quote = adjustQuote(price, liquidityPools[optionId], now),
                                        !.sawPool = TRUE,
                                        !.observed = liquidityPools[optionId],
                                        !.base = price]
               ELSE [BlankResult EXCEPT !.op = "getPrice", !.optionId = optionId,
                                        !.base = price,
                                        !.quote = [ midPrice |-> Num(price.midPrice),
                                                    bidPrice |-> Num(price.bidPrice),
                                                    askPrice |-> Num(price.askPrice) ]]
  /\ Atomic

\* the caller goes on with the value or the error it was handed
Resume ==
  /\ ~Idle
  /\ result' = BlankResult
  /\ UNCHANGED <<liquidityPools, now, steps, inflight, committed>>
  /\ UNCHANGED engineVars

\* time passes between calls
Tick ==
  /\ Idle
  /\ inflight = {}
  /\ steps < MaxSteps
  /\ steps' = steps + 1
  /\ now' = now + 1
  /\ UNCHANGED <<liquidityPools, result, inflight, committed>>
  /\ UNCHANGED engineVars

-----------------------------------------------------------------------------
(* AMM.initialize: after the pricing engine is ready, the demo pools are   *)
(* (re)built from Math.random() draws                                      *)

DemoInitialPrices == {6000}

DemoLiquidityAmounts == {10000}

DemoBuyVolumes == {200, 1000}

DemoSellVolumes == {200, 500}

DemoTradeAges == {1}

DemoDraws ==
  [ initialPrice : DemoInitialPrices, liquidityAmount : DemoLiquidityAmounts,
    buyVolume : DemoBuyVolumes, sellVolume : DemoSellVolumes, age : DemoTradeAges ]

\* the body of one forEach iteration, lines 227-247
DemoPool(draw, t) ==
  LET funded == AddLiquidityL48(AddLiquidityL45(NewPool(draw.initialPrice, t),
                                                draw.liquidityAmount))
  IN  [funded EXCEPT !.buyVolume = draw.buyVolume,
                     !.sellVolume = draw.sellVolume,
                     !.totalVolume = draw.buyVolume + draw.sellVolume,
                     !.imbalanceRatio = JSDiv(Abs(draw.buyVolume - draw.sellVolume),
                                              draw.buyVolume + draw.sellVolume),
                     !.lastTradeTimestamp = t - draw.age]

initializeDemoLiquidityPools(draws) ==
  liquidityPools' =
    [k \in DOMAIN liquidityPools \cup DemoOptionIds |->
       IF k \in DemoOptionIds THEN DemoPool(draws[k], now) ELSE liquidityPools[k]]

initialize ==
  \E draws \in [DemoOptionIds -> DemoDraws] :
    /\ initializeDemoLiquidityPools(draws)
    /\ result' = [BlankResult EXCEPT !.op = "initialize"]
    /\ Atomic

-----------------------------------------------------------------------------
Next ==
  \/ \E id \in OptionIds, p \in InitialPrices : initializeLiquidityPool(id, p)
  \/ \E id \in OptionIds, a \in LiquidityAmounts : addLiquidity(id, a, 5000)
  \/ \E id \in OptionIds, a \in LiquidityAmounts : removeLiquidity(id, a)
  \/ \E id \in OptionIds, d \in Directions, a \in TradeAmounts : executeTrade(id, d, a)
  \/ \E id \in OptionIds, m \in BaseMids, h \in BaseHalfSpreads : getPrice(id, BaseQuote(m, h))
  \/ initialize
  \/ Resume
  \/ Tick

Spec == Init /\ [][Next]_vars


-----------------------------------------------------------------------------
(* The same three operations statement by statement.  A frame is one       *)
(* invocation: its arguments, its locals and the statement it is at.       *)

Frame(op, optionId, amount, direction, pc, amountToRemove, executionPrice, slippage) ==
  [ op |-> op, optionId |-> optionId, amount |-> amount, direction |-> direction,
    pc |-> pc, amountToRemove |-> amountToRemove,
    executionPrice |-> executionPrice, slippage |-> slippage ]

Enter == /\ Idle
         /\ RunToCompletion(inflight)
         /\ steps < MaxSteps
         /\ steps' = steps + 1
         /\ UNCHANGED now
         /\ UNCHANGED engineVars

\* replace frame f by g (a statement was executed)
Advance(f, g) == inflight' = (inflight \ {f}) \cup {g}

\* the invocation returns or throws
Leave(f) == /\ inflight' = inflight \ {f}
            /\ UNCHANGED engineVars
            /\ committed' = IF inflight' = {} THEN liquidityPools' ELSE committed

WritePool(optionId, pool) == liquidityPools' = MapSet(liquidityPools, optionId, pool)

BeginAddLiquidity(optionId, amount, initialPrice) ==
  /\ Enter
  /\ liquidityPools' = GetOrInitialize(liquidityPools, optionId, initialPrice, now)
  /\ inflight' = inflight \cup
       {Frame("addLiquidity", optionId, amount, "null", "L45", 0, Num(0), Num(0))}
  /\ UNCHANGED <<result, committed>>

BeginRemoveLiquidity(optionId, amount) ==
  LET pools == Lookup(liquidityPools, optionId, now)
  IN  /\ Enter
      /\ liquidityPools' = pools
      /\ IF ~HasPool(pools, optionId)
         THEN /\ result' = Throw("removeLiquidity", optionId, amount, "null", "NoPool")
              /\ UNCHANGED <<inflight, committed>>
         ELSE /\ inflight' = inflight \cup
                   {Frame("removeLiquidity", optionId, amount, "null", "L68",
                          AmountToRemove(pools[optionId], amount), Num(0), Num(0))}
              /\ UNCHANGED <<result, committed>>

BeginExecuteTrade(optionId, direction, amount) ==
  LET pools == Lookup(liquidityPools, optionId, now)
  IN  /\ Enter
      /\ liquidityPools' = pools
      /\ IF ~HasPool(pools, optionId)
         THEN /\ result' = Throw("executeTrade", optionId, amount, direction, "NoPool")
              /\ UNCHANGED <<inflight, committed>>
         ELSE IF ExceedsMaxOrderSize(amount, pools[optionId])
         THEN /\ result' = Throw("executeTrade", optionId, amount, direction, "OrderTooLarge")
              /\ UNCHANGED <<inflight, committed>>
         ELSE LET slippage == calculateSlippage(amount, pools[optionId].liquidity)
              IN  /\ inflight' = inflight \cup
                       {Frame("executeTrade", optionId, amount, direction, "L106", 0,
                              ExecutionPrice(pools[optionId], direction, slippage), slippage)}
                  /\ UNCHANGED <<result, committed>>

Quiet == /\ UNCHANGED <<now, steps, result, committed>>
         /\ UNCHANGED engineVars

AddLiquidityStmt45(f) ==
  /\ f.op = "addLiquidity" /\ f.pc = "L45"
  /\ WritePool(f.optionId, AddLiquidityL45(liquidityPools[f.optionId], f.amount))
  /\ Advance(f, [f EXCEPT !.pc = "L48"])
  /\ Quiet

AddLiquidityStmt48(f) ==
  /\ f.op = "addLiquidity" /\ f.pc = "L48"
  /\ WritePool(f.optionId, AddLiquidityL48(liquidityPools[f.optionId]))
  /\ Advance(f, [f EXCEPT !.pc = "L50"])
  /\ Quiet

AddLiquidityReturn(f) ==
  /\ f.op = "addLiquidity" /\ f.pc = "L50"
  /\ liquidityPools' = liquidityPools
  /\ result' = [BlankResult EXCEPT !.op = "addLiquidity", !.optionId = f.optionId,
                                   !.amount = f.amount,
                                   !.totalLiquidity = liquidityPools[f.optionId].liquidity,
                                   !.maxOrderSize = liquidityPools[f.optionId].maxOrderSize]
  /\ Leave(f)
  /\ UNCHANGED <<now, steps>>

RemoveLiquidityStmt68(f) ==
  /\ f.op = "removeLiquidity" /\ f.pc = "L68"
  /\ WritePool(f.optionId, RemoveLiquidityL68(liquidityPools[f.optionId], f.amountToRemove))
  /\ Advance(f, [f EXCEPT !.pc = "L71"])
  /\ Quiet

RemoveLiquidityStmt71(f) ==
  /\ f.op = "removeLiquidity" /\ f.pc = "L71"
  /\ WritePool(f.optionId, RemoveLiquidityL71(liquidityPools[f.optionId]))
  /\ Advance(f, [f EXCEPT !.pc = "L73"])
  /\ Quiet

RemoveLiquidityReturn(f) ==
  /\ f.op = "removeLiquidity" /\ f.pc = "L73"
  /\ liquidityPools' = liquidityPools
  /\ result' = [BlankResult EXCEPT !.op = "removeLiquidity", !.optionId = f.optionId,
                                   !.amount = f.amount,
                                   !.amountRemoved = f.amountToRemove,
                                   !.totalLiquidity = liquidityPools[f.optionId].liquidity,
                                   !.maxOrderSize = liquidityPools[f.optionId].maxOrderSize]
  /\ Leave(f)
  /\ UNCHANGED <<now, steps>>

ExecuteTradeStmt106(f) ==
  /\ f.op = "executeTrade" /\ f.pc = "L106"
  /\ WritePool(f.optionId,
               ExecuteTradeL106(liquidityPools[f.optionId], f.direction, f.amount, now))
  /\ Advance(f, [f EXCEPT !.pc = "L112"])
  /\ Quiet

ExecuteTradeStmt112(f) ==
  /\ f.op = "executeTrade" /\ f.pc = "L112"
  /\ WritePool(f.optionId, ExecuteTradeL112(liquidityPools[f.optionId], f.direction, f.amount))
  /\ Advance(f, [f EXCEPT !.pc = "L118"])
  /\ Quiet

ExecuteTradeStmt118(f) ==
  /\ f.op = "executeTrade" /\ f.pc = "L118"
  /\ WritePool(f.optionId, ExecuteTradeL118(liquidityPools[f.optionId]))
  /\ Advance(f, [f EXCEPT !.pc = "L120"])
  /\ Quiet

ExecuteTradeReturn(f) ==
  /\ f.op = "executeTrade" /\ f.pc = "L120"
  /\ liquidityPools' = liquidityPools
  /\ result' = [BlankResult EXCEPT !.op = "executeTrade", !.optionId = f.optionId,
                                   !.amount = f.amount, !.direction = f.direction,
                                   !.executionPrice = f.executionPrice,
                                   !.slippage = f.slippage]
  /\ Leave(f)
  /\ UNCHANGED <<now, steps>>

StepNext ==
  \/ \E id \in OptionIds, p \in InitialPrices : initializeLiquidityPool(id, p)
  \/ \E id \in OptionIds, a \in LiquidityAmounts : BeginAddLiquidity(id, a, 5000)
  \/ \E id \in OptionIds, a \in LiquidityAmounts : BeginRemoveLiquidity(id, a)
  \/ \E id \in OptionIds, d \in Directions, a \in TradeAmounts : BeginExecuteTrade(id, d, a)
  \/ \E f \in inflight : AddLiquidityStmt45(f)
  \/ \E f \in inflight : AddLiquidityStmt48(f)
  \/ \E f \in inflight : AddLiquidityReturn(f)
  \/ \E f \in inflight : RemoveLiquidityStmt68(f)
  \/ \E f \in inflight : RemoveLiquidityStmt71(f)
  \/ \E f \in inflight : RemoveLiquidityReturn(f)
  \/ \E f \in inflight : ExecuteTradeStmt106(f)
  \/ \E f \in inflight : ExecuteTradeStmt112(f)
  \/ \E f \in inflight : ExecuteTradeStmt118(f)
  \/ \E f \in inflight : ExecuteTradeReturn(f)
  \/ \E id \in OptionIds, m \in BaseMids, h \in BaseHalfSpreads : getPrice(id, BaseQuote(m, h))
  \/ initialize
  \/ Resume
  \/ Tick

StepSpec == Init /\ [][StepNext]_vars


-----------------------------------------------------------------------------
(* MarketMonitor (optionsPricing.js, lines 472-557).  A snapshot is kept   *)
(* as its price, in FP parts.  fetchAndUpdate is async: the call starts a  *)
(* request to the feed and the rest of its body runs as a later task, once *)
(* the feed has answered or failed.                                        *)

Callbacks == {"cbA", "cbB"}

\* OptionsPricingEngine.handleMarketUpdate, bound (line 14)
EngineCallback == "handleMarketUpdate"

\* what the feed may answer: 0.50, 0.55 (0.05 away) and 0.56
FeedPrices == {5000, 5500, 5600}

\* line 520: 0.05
SignificantMove == 500

NoSnapshot == -1

Has(map, key) == key \in DOMAIN map

\* the monitor is between tasks
Quiescent == event = BlankEvent

\* one task of the monitor, run to completion
MonitorStep == /\ Quiescent
               /\ steps < MaxEvents
               /\ steps' = steps + 1
               /\ UNCHANGED ammVars
               /\ UNCHANGED <<subscribers, marketDataService>>

\* the task's report has been read
Settle ==
  /\ ~Quiescent
  /\ event' = BlankEvent
  /\ UNCHANGED <<markets, pollingIntervals, listeners, handles, fetches,
                 volatilityCache, recomputes, steps>>
  /\ UNCHANGED <<subscribers, marketDataService>>
  /\ UNCHANGED ammVars

SetMax(S) == CHOOSE x \in S : \A y \in S : y <= x

\* registrations are numbered in the order they are made (the number is not
\* in the code: it tells two registrations of one callback apart)
NextReg ==
  LET used == {h.reg : h \in handles} \cup {listeners[i].reg : i \in DOMAIN listeners}
  IN  IF used = {} THEN 1 ELSE SetMax(used) + 1

\* addListener, lines 502-507 (subscribeToUpdates, lines 66-71, is the same code)
addListener(callback) ==
  /\ listeners' = Append(listeners, [callback |-> callback, reg |-> NextReg])
  /\ handles' = handles \cup {[callback |-> callback, reg |-> NextReg]}
  /\ event' = [BlankEvent EXCEPT !.op = "addListener", !.callback = callback,
                                 !.reg = NextReg]
  /\ MonitorStep
  /\ UNCHANGED <<markets, pollingIntervals, fetches, volatilityCache, recomputes>>

\* line 505: this.listeners.filter(cb => cb !== callback)
RemoveCallback(ls, callback) ==
  LET Other(e) == e.callback # callback
  IN  SelectSeq(ls, Other)

\* the function addListener returned is called
unsubscribe(h) ==
  /\ listeners' = RemoveCallback(listeners, h.callback)
  /\ event' = [BlankEvent EXCEPT !.op = "unsubscribe", !.callback = h.callback,
                                 !.reg = h.reg]
  /\ MonitorStep
  /\ UNCHANGED <<markets, pollingIntervals, handles, fetches, volatilityCache,
                 recomputes>>

\* subscribeToUpdates, lines 66-71 (the function it returns is not modelled:
\* it is the code of line 505 again)
subscribeToUpdates(callback) ==
  LET reg == IF subscribers = << >> THEN 1
             ELSE SetMax({subscribers[i].reg : i \in DOMAIN subscribers}) + 1
  IN  /\ subscribers' = Append(subscribers, [callback |-> callback, reg |-> reg])
      /\ event' = [BlankEvent EXCEPT !.op = "subscribeToUpdates",
                                     !.callback = callback, !.reg = reg]
      /\ Quiescent
      /\ steps < MaxEvents
      /\ steps' = steps + 1
      /\ UNCHANGED ammVars
      /\ UNCHANGED <<markets, pollingIntervals, listeners, handles, fetches,
                     volatilityCache, recomputes, marketDataService>>

\* OptionsPricingEngine.initialize, line 14: the engine registers its handler
\* and drops the function addListener returns
engineInitialize ==
  /\ listeners' = Append(listeners, [callback |-> EngineCallback, reg |-> NextReg])
  /\ event' = [BlankEvent EXCEPT !.op = "initialize", !.callback = EngineCallback,
                                 !.reg = NextReg]
  /\ MonitorStep
  /\ UNCHANGED <<markets, pollingIntervals, handles, fetches, volatilityCache,
                 recomputes>>

\* startMonitoring, lines 479-493: nothing if already monitored, otherwise a
\* first fetch at once and an interval for the later ones
startMonitoring(marketId) ==
  /\ IF marketId \in pollingIntervals
     THEN UNCHANGED <<pollingIntervals, fetches>>
     ELSE /\ fetches' = [fetches EXCEPT ![marketId] = @ + 1]
          /\ pollingIntervals' = pollingIntervals \cup {marketId}
  /\ event' = [BlankEvent EXCEPT !.op = "startMonitoring", !.marketId = marketId]
  /\ MonitorStep
  /\ UNCHANGED <<markets, listeners, handles, volatilityCache, recomputes>>

DropSnapshot(snapshots, marketId) ==
  [k \in DOMAIN snapshots \ {marketId} |-> snapshots[k]]

\* stopMonitoring leaves this.markets alone
SnapshotsAfterStop(snapshots, marketId) == snapshots

\* stopMonitoring, lines 495-500
stopMonitoring(marketId) ==
  /\ pollingIntervals' = IF marketId \in pollingIntervals
                         THEN pollingIntervals \ {marketId}
                         ELSE pollingIntervals
  /\ markets' = SnapshotsAfterStop(markets, marketId)
  /\ event' = [BlankEvent EXCEPT !.op = "stopMonitoring", !.marketId = marketId,
                                 !.wasMonitored = marketId \in pollingIntervals]
  /\ MonitorStep
  /\ UNCHANGED <<listeners, handles, fetches, volatilityCache, recomputes>>

\* the interval of line 486 fires
IntervalFires(marketId) ==
  /\ marketId \in pollingIntervals
  /\ fetches' = [fetches EXCEPT ![marketId] = @ + 1]
  /\ event' = [BlankEvent EXCEPT !.op = "intervalFired", !.marketId = marketId]
  /\ MonitorStep
  /\ UNCHANGED <<markets, pollingIntervals, listeners, handles, volatilityCache,
                 recomputes>>

AtLeastAsFar(hasPrevious, previousPrice, price) ==
  hasPrevious /\ Abs(price - previousPrice) >= SignificantMove

\* line 520
IsSignificant(hasPrevious, previousPrice, price) ==
  hasPrevious /\ Abs(price - previousPrice) > SignificantMove

NotYetStored(before, after) == before

\* line 516 runs before line 524: the listeners find the new snapshot stored
MarketsAtNotify(before, after) == after

\* notifyListeners, lines 530-534: every listener in turn, with what it is
\* told and the snapshot it would read from the monitor
notifyListeners(ls, seen, marketId, price, updateType) ==
  [i \in DOMAIN ls |->
     [ callback |-> ls[i].callback, reg |-> ls[i].reg, marketId |-> marketId,
       price |-> price, updateType |-> updateType,
       stored |-> IF Has(seen, marketId) THEN seen[marketId] ELSE NoSnapshot ]]

NoRecompute(ls) == 0

\* handleMarketUpdate, lines 17-20: every registration of the engine's
\* handler starts one updateVolatilityEstimate
EngineRegistrations(ls) ==
  Cardinality({i \in DOMAIN ls : ls[i].callback = EngineCallback})

\* notifyListeners of the engine, lines 73-77
notifyEngineListeners(subs, marketId, updateType) ==
  [i \in DOMAIN subs |->
     [ callback |-> subs[i].callback, reg |-> subs[i].reg, marketId |-> marketId,
       updateType |-> updateType ]]

\* line 19: every invocation of handleMarketUpdate runs one round over the
\* engine's own listeners
RECURSIVE EngineRound(_, _)
EngineRound(ls, once) ==
  IF ls = << >> THEN << >>
  ELSE (IF Head(ls).callback = EngineCallback THEN once ELSE << >>)
         \o EngineRound(Tail(ls), once)

\* what a listener may do while it is being notified: nothing that touches
\* the monitor, or call an unsubscribe function (at is its place in the round)
NoReaction == [at |-> 0, callback |-> "null"]

Reactions(ls, hs) ==
  {NoReaction} \cup
  {[at |-> i, callback |-> h.callback] :
     i \in {j \in DOMAIN ls : ls[j].callback # EngineCallback}, h \in hs}

\* line 531: for...of walks the array that was this.listeners when the loop
\* began; line 505 assigns a new array and leaves that one as it was
IteratedArray(atStart, reassigned) == atStart

\* fetchAndUpdate after the feed answered, lines 513-524
FetchSucceeds(marketId, price, during) ==
  LET hasPrevious == Has(markets, marketId)
      previousPrice == IF hasPrevious THEN markets[marketId] ELSE 0
      stored == MapSet(markets, marketId, price)
      updateType == IF IsSignificant(hasPrevious, previousPrice, price)
                    THEN "significant-change" ELSE "regular"
  IN  /\ fetches[marketId] > 0
      /\ fetches' = [fetches EXCEPT ![marketId] = @ - 1]
      /\ markets' = stored
      /\ listeners' = IF during = NoReaction THEN listeners
                      ELSE RemoveCallback(listeners, during.callback)
      /\ recomputes' = [recomputes EXCEPT ![marketId] = @ + EngineRegistrations(listeners)]
      /\ event' = [BlankEvent EXCEPT
                     !.op = "fetched", !.marketId = marketId, !.price = price,
                     !.hadPrevious = hasPrevious, !.previousPrice = previousPrice,
                     !.updateType = updateType,
                     !.unsubAt = during.at, !.unsubCallback = during.callback,
                     !.round = notifyListeners(IteratedArray(listeners, listeners'),
                                               MarketsAtNotify(markets, stored),
                                               marketId, price, updateType),
                     !.engineRound =
                        EngineRound(IteratedArray(listeners, listeners'),
                                    notifyEngineListeners(subscribers, marketId, updateType))]
      /\ MonitorStep
      /\ UNCHANGED <<pollingIntervals, handles, volatilityCache>>

CancelOnFailure(intervals, marketId) == intervals \ {marketId}

\* the catch of lines 525-527 logs and returns: the interval stays
IntervalsAfterFailure(intervals, marketId) == intervals

\* fetchAndUpdate after the feed failed, lines 525-527
FetchFails(marketId) ==
  /\ fetches[marketId] > 0
  /\ fetches' = [fetches EXCEPT ![marketId] = @ - 1]
  /\ pollingIntervals' = IntervalsAfterFailure(pollingIntervals, marketId)
  /\ event' = [BlankEvent EXCEPT !.op = "fetchFailed", !.marketId = marketId]
  /\ MonitorStep
  /\ UNCHANGED <<markets, listeners, handles, volatilityCache, recomputes>>

MonitorNext ==
  \/ \E cb \in Callbacks : addListener(cb)
  \/ \E h \in handles : unsubscribe(h)
  \/ engineInitialize
  \/ \E id \in MarketIds : startMonitoring(id)
  \/ \E id \in MarketIds : stopMonitoring(id)
  \/ \E id \in MarketIds : IntervalFires(id)
  \/ \E id \in MarketIds, p \in FeedPrices, d \in Reactions(listeners, handles) :
        FetchSucceeds(id, p, d)
  \/ \E cb \in Callbacks : subscribeToUpdates(cb)
  \/ \E id \in MarketIds : FetchFails(id)
  \/ Settle

MonitorSpec == Init /\ [][MonitorNext]_vars

-----------------------------------------------------------------------------
(* VolatilityService (optionsPricing.js, lines 344-470): the cache and the *)
(* asynchronous recompute.  Volatilities and years are in FP parts.        *)

\* lines 353, 441 and 467: 0.3
DefaultVolatility == 3000

\* what calculateVolatility may resolve to
VolatilityEstimates == {1000, 3000}

TimesToExpiry == {0, 500, 3000, 10000}

\* applyTermStructure, lines 445-458
applyTermStructure(baseVol, timeToExpiry) ==
  IF timeToExpiry <= 0 THEN baseVol
  ELSE IF timeToExpiry < 1000
       THEN (baseVol * (FP + (1000 - timeToExpiry) * 3)) \div FP
  ELSE IF timeToExpiry > 5000
       THEN (baseVol * (FP - Min(3000, ((timeToExpiry - 5000) * 3) \div 10))) \div FP
  ELSE baseVol

VolStep == /\ Quiescent
           /\ steps < MaxVolEvents
           /\ steps' = steps + 1
           /\ UNCHANGED ammVars
           /\ UNCHANGED <<markets, pollingIntervals, listeners, handles, fetches>>
           /\ UNCHANGED <<subscribers, marketDataService>>

\* an awaited promise settles and the async function goes on: this is not a
\* new call, so it is not counted against the bound on calls
PromiseSettles == /\ Quiescent
                  /\ UNCHANGED steps
                  /\ UNCHANGED ammVars
                  /\ UNCHANGED <<markets, pollingIntervals, listeners, handles, fetches>>
                  /\ UNCHANGED <<subscribers, marketDataService>>

\* lines 434-441: the cached value if there is one, else 0.3
BaseVolatility(cache, marketId) ==
  IF Has(cache, marketId) THEN cache[marketId] ELSE DefaultVolatility

AfterRecompute(pending, marketId) == pending[marketId] = 0

\* getDynamicVolatility has no await: it returns whatever is in flight
Synchronous(pending, marketId) == TRUE

\* getDynamicVolatility, lines 433-443
getDynamicVolatility(marketId, timeToExpiry) ==
  LET baseVol == BaseVolatility(volatilityCache, marketId)
  IN  /\ Synchronous(recomputes, marketId)
      /\ recomputes' = IF Has(volatilityCache, marketId) THEN recomputes
                       ELSE [recomputes EXCEPT ![marketId] = @ + 1]
      /\ volatilityCache' = volatilityCache
      /\ event' = [BlankEvent EXCEPT
                     !.op = "getDynamicVolatility", !.marketId = marketId,
                     !.timeToExpiry = timeToExpiry, !.baseVol = baseVol,
                     !.value = applyTermStructure(baseVol, timeToExpiry),
                     !.pending = recomputes[marketId]]
      /\ VolStep

\* handleMarketUpdate, line 18, seen from the volatility service: a recompute
\* is started whatever the cache holds
handleMarketUpdate(marketId) ==
  /\ recomputes' = [recomputes EXCEPT ![marketId] = @ + 1]
  /\ volatilityCache' = volatilityCache
  /\ event' = [BlankEvent EXCEPT !.op = "handleMarketUpdate", !.marketId = marketId]
  /\ VolStep

KeepFirstEstimate(cache, marketId, volatility) ==
  IF Has(cache, marketId) THEN cache ELSE MapSet(cache, marketId, volatility)

\* line 463: this.volatilityCache.set(marketId, volatility)
CacheAfterSuccess(cache, marketId, volatility) == MapSet(cache, marketId, volatility)

\* lines 465-468: the catch returns 0.3 and writes nothing
CacheAfterFailure(cache, marketId) == cache

\* updateVolatilityEstimate after calculateVolatility resolved, lines 462-464
RecomputeSucceeds(marketId, volatility) ==
  /\ recomputes[marketId] > 0
  /\ recomputes' = [recomputes EXCEPT ![marketId] = @ - 1]
  /\ volatilityCache' = CacheAfterSuccess(volatilityCache, marketId, volatility)
  /\ event' = [BlankEvent EXCEPT
                 !.op = "recomputed", !.marketId = marketId, !.value = volatility,
                 !.hadPrevious = Has(volatilityCache, marketId),
                 !.baseVol = BaseVolatility(volatilityCache, marketId)]
  /\ PromiseSettles

\* updateVolatilityEstimate after calculateVolatility rejected, lines 465-468
RecomputeFails(marketId) ==
  /\ recomputes[marketId] > 0
  /\ recomputes' = [recomputes EXCEPT ![marketId] = @ - 1]
  /\ volatilityCache' = CacheAfterFailure(volatilityCache, marketId)
  /\ event' = [BlankEvent EXCEPT
                 !.op = "recomputeFailed", !.marketId = marketId,
                 !.hadPrevious = Has(volatilityCache, marketId),
                 !.baseVol = BaseVolatility(volatilityCache, marketId)]
  /\ PromiseSettles

VolNext ==
  \/ \E id \in MarketIds, t \in TimesToExpiry : getDynamicVolatility(id, t)
  \/ \E id \in MarketIds : handleMarketUpdate(id)
  \/ \E id \in MarketIds, v \in VolatilityEstimates : RecomputeSucceeds(id, v)
  \/ \E id \in MarketIds : RecomputeFails(id)
  \/ Settle

VolSpec == Init /\ [][VolNext]_vars

-----------------------------------------------------------------------------
(* The two volatility estimators (optionsPricing.js, 351-431), as pure     *)
(* functions of the price history.  A log return is the record [kind, v]:  *)
(* kind "num" with v in FP parts, or "inf" (log of x/0 and of 0/x, whose   *)
(* square is +Infinity either way) or "nan" (log of 0/0).  Squares and the *)
(* variance are in FP*FP parts.                                            *)

\* the prices an observation carries; 0 stands for the prices <= 0
HistoryPrices == {0, 5000, 5050, 5500}

MaxHistory == 3

Finite(v) == [kind |-> "num", v |-> v]
Infinite == [kind |-> "inf", v |-> 0]
NotANumber == [kind |-> "nan", v |-> 0]

\* Math.log(a / b) for the positive prices of HistoryPrices, in FP parts
LogRatio(a, b) ==
  IF a = b THEN 0
  ELSE IF a > b
    THEN (IF b = 5000 THEN (IF a = 5050 THEN 100 ELSE 953) ELSE 854)
    ELSE (IF a = 5000 THEN (IF b = 5050 THEN -100 ELSE -953) ELSE -854)

\* Math.log(currentPrice / previousPrice) as JavaScript computes it
MathLog(currentPrice, previousPrice) ==
  IF currentPrice = 0 /\ previousPrice = 0 THEN NotANumber
  ELSE IF currentPrice = 0 \/ previousPrice = 0 THEN Infinite
  ELSE Finite(LogRatio(currentPrice, previousPrice))

\* [...data].sort((a, b) => new Date(a.timestamp) - new Date(b.timestamp))
RECURSIVE SortByTimestamp(_)
SortByTimestamp(data) ==
  IF data = << >> THEN << >>
  ELSE LET i == CHOOSE i \in DOMAIN data :
                  \A j \in DOMAIN data : data[i].timestamp <= data[j].timestamp
           rest == [k \in 1..(Len(data) - 1) |->
                      IF k < i THEN data[k] ELSE data[k + 1]]
       IN  <<data[i]>> \o SortByTimestamp(rest)

RECURSIVE SumSeq(_)
SumSeq(xs) == IF xs = << >> THEN 0 ELSE Head(xs) + SumSeq(Tail(xs))

\* Math.min(Math.max(annualizedVol, 0.1), 1.0): NaN goes through both
Clamp(x) ==
  IF x.kind = "nan" THEN NotANumber
  ELSE IF x.kind = "inf" THEN Finite(FP)
  ELSE Finite(Min(Max(x.v, FP \div 10), FP))

\* lines 374-385: the returns of the pairs whose two prices are positive
RECURSIVE UsableReturns(_)
UsableReturns(sortedData) ==
  IF Len(sortedData) < 2 THEN << >>
  ELSE LET currentPrice == sortedData[2].price
           previousPrice == sortedData[1].price
           rest == UsableReturns(Tail(sortedData))
       IN  IF currentPrice <= 0 \/ previousPrice <= 0
             THEN rest
             ELSE <<LogRatio(currentPrice, previousPrice)>> \o rest

\* lines 368-397
calculateHistoricalVolatility(data) ==
  LET returns == UsableReturns(SortByTimestamp(data))
      n == Len(returns)
      \* sum of (val - mean)^2 is sum of val^2 minus (sum of val)^2 / n
      variance == (n * SumSeq([k \in 1..n |-> returns[k] * returns[k]])
                     - SumSeq(returns) * SumSeq(returns)) \div (n * (n - 1))
  IN  IF n < 2 THEN Finite(3000)
      ELSE Clamp(Finite(ISqrt(variance * 365)))

\* lines 410-414: a return for every pair, whatever its prices
AllReturns(sortedData) ==
  [k \in 1..(Len(sortedData) - 1) |->
     MathLog(sortedData[k + 1].price, sortedData[k].price)]

\* a * x + b * y for positive weights a + b = 100 (in hundredths)
Weighted(a, x, b, y) ==
  IF x.kind = "nan" \/ y.kind = "nan" THEN NotANumber
  ELSE IF x.kind = "inf" \/ y.kind = "inf" THEN Infinite
  ELSE Finite((a * x.v + b * y.v) \div 100)

\* lines 422-425: variance = lambda * variance + (1 - lambda) * r * r
RECURSIVE Ewma(_, _)
Ewma(variance, returns) ==
  IF returns = << >> THEN variance
  ELSE LET r == Head(returns)
           squared == IF r.kind = "num" THEN Finite(r.v * r.v) ELSE r
       IN  Ewma(Weighted(94, variance, 6, squared), Tail(returns))

\* lines 418-420: the sum of the first squares over returns.length
SeedVariance(returns) ==
  LET first == SubSeq(returns, 1, Min(5, Len(returns)))
  IN  IF \E k \in DOMAIN first : first[k].kind = "nan" THEN NotANumber
      ELSE IF \E k \in DOMAIN first : first[k].kind = "inf" THEN Infinite
      ELSE Finite(SumSeq([k \in DOMAIN first |-> first[k].v * first[k].v])
                 \div Len(returns))

\* lines 399-431
calculateEWMAVolatility(data) ==
  LET returns == AllReturns(SortByTimestamp(data))
      variance == Ewma(SeedVariance(returns), returns)
      \* Math.sqrt(variance * 365)
      annualizedVol == IF variance.kind = "num"
                         THEN Finite(ISqrt(variance.v * 365)) ELSE variance
  IN  IF Len(returns) < 2 THEN Finite(3000) ELSE Clamp(annualizedVol)

Methods == {"historical", "ewma", "other"}

\* the price series of up to MaxHistory observations
PriceSeries == UNION { [1..n -> HistoryPrices] : n \in 0..MaxHistory }

\* getHistoricalData's answer: observations with distinct timestamps, handed
\* over oldest first or newest first
Stamped(ps, newestFirst) ==
  [k \in DOMAIN ps |->
     [timestamp |-> IF newestFirst THEN Len(ps) + 1 - k ELSE k, price |-> ps[k]]]

\* lines 351-366: too short a history is answered with the default, any
\* method but 'ewma' is the historical one
calculateVolatility(data, method) ==
  /\ Quiescent
  /\ event' = [op |-> "calculateVolatility", method |-> method, data |-> data,
               value |-> IF Len(data) < 2 THEN Finite(3000)
                         ELSE IF method = "ewma"
                           THEN calculateEWMAVolatility(data)
                           ELSE calculateHistoricalVolatility(data)]
  /\ UNCHANGED <<markets, pollingIntervals, listeners, handles, fetches,
                 volatilityCache, recomputes, steps>>
  /\ UNCHANGED <<subscribers, marketDataService>>
  /\ UNCHANGED ammVars

EstimateNext ==
  \/ \E ps \in PriceSeries, newestFirst \in BOOLEAN, method \in Methods :
       calculateVolatility(Stamped(ps, newestFirst), method)
  \/ Settle

EstimateSpec == Init /\ [][EstimateNext]_vars

-----------------------------------------------------------------------------
(* The price model (optionsPricing.js, BlackScholesBinaryModel, 80-210).   *)
(* Probabilities, times, volatilities and prices are in FP parts; a number *)
(* that may not be finite is [kind, v] as above, an infinity carrying its  *)
(* sign in v.  The quote's theta field holds theta * 365 (the sum t1 + t2  *)
(* of line 209), which is zero, finite or NaN exactly when theta is.       *)

\* the parameter records calculatePrice is called with (line 82-90, the two
\* probabilities already divided by 100 as in lines 93-94; riskFreeRate 0.05)
PriceParams ==
  [ currentPrice : {0, 2500, 5000, 7500},
    strikePrice : {0, 2500, 5000, 7500},
    timeToExpiry : {0, 2500, 10000},
    volatility : {0, 3000, 10000},
    optionType : {"call", "put"},
    liquidityFactor : {0, 1000, 30000} ]

riskFreeRate == 500

Infinity(sign) == [kind |-> "inf", v |-> sign]

\* Math.log of a positive price of PriceParams
NaturalLog(x) == IF x = 2500 THEN -13863 ELSE IF x = 5000 THEN -6931 ELSE -2877

\* Math.sqrt(timeToExpiry)
SqrtT(timeToExpiry) == ISqrt(timeToExpiry * FP)

\* Math.exp(-riskFreeRate * timeToExpiry) for the times of PriceParams
Discount(timeToExpiry) ==
  IF timeToExpiry = 0 THEN FP ELSE IF timeToExpiry = 2500 THEN 9875 ELSE 9512

\* lines 143-159
calculateD1D2(currentPrice, strikePrice, timeToExpiry, volatility) ==
  IF timeToExpiry <= 0 \/ volatility <= 0
    THEN [d1 |-> Finite(0), d2 |-> Finite(0)]
  ELSE IF currentPrice = 0 /\ strikePrice = 0
    THEN [d1 |-> NotANumber, d2 |-> NotANumber]
  ELSE IF currentPrice = 0
    THEN [d1 |-> Infinity(-1), d2 |-> Infinity(-1)]
  ELSE IF strikePrice = 0
    THEN [d1 |-> Infinity(1), d2 |-> Infinity(1)]
  ELSE LET sigmaRootT == (volatility * SqrtT(timeToExpiry)) \div FP
           drift == ((riskFreeRate + (volatility * volatility) \div (2 * FP))
                       * timeToExpiry) \div FP
           d1 == ((NaturalLog(currentPrice) - NaturalLog(strikePrice) + drift)
                    * FP) \div sigmaRootT
       IN  [d1 |-> Finite(d1), d2 |-> Finite(d1 - sigmaRootT)]

\* a function tabulated at 0, 0.5, 1, ... 4, linear in between, flat after 4
Tabulated(table, x) ==
  LET i == x \div 5000
  IN  IF i >= 8 THEN table[9]
      ELSE table[i + 1] + ((table[i + 2] - table[i + 1]) * (x % 5000)) \div 5000

\* lines 161-176
normalCDF(x) ==
  IF x.kind = "nan" THEN NotANumber
  ELSE IF x.kind = "inf" THEN Finite(IF x.v > 0 THEN FP ELSE 0)
  ELSE LET upper == Tabulated(<<5000, 6915, 8413, 9332, 9772,
                                9938, 9987, 9998, 10000>>, Abs(x.v))
       IN  Finite(IF x.v < 0 THEN FP - upper ELSE upper)

\* lines 178-181
normalPDF(x) ==
  IF x.kind = "nan" THEN NotANumber
  ELSE IF x.kind = "inf" THEN Finite(0)
  ELSE Finite(Tabulated(<<3989, 3521, 2420, 1295, 540, 175, 44, 9, 1>>, Abs(x.v)))

\* lines 185-189
calculateDelta(d1, optionType) ==
  LET cdf == normalCDF(d1)
  IN  IF cdf.kind = "nan" THEN NotANumber
      ELSE Finite(IF optionType = "call" THEN cdf.v ELSE cdf.v - FP)

\* lines 191-193: x / 0 is Infinity for x > 0 and NaN for x = 0
calculateGamma(d1, price, volatility, timeToExpiry) ==
  LET pdf == normalPDF(d1)
      denominator == (((price * volatility) \div FP) * SqrtT(timeToExpiry)) \div FP
  IN  IF pdf.kind = "nan" THEN NotANumber
      ELSE IF price = 0 \/ volatility = 0 \/ timeToExpiry = 0
        THEN (IF pdf.v > 0 THEN Infinity(1) ELSE NotANumber)
      ELSE Finite((pdf.v * FP) \div denominator)

\* lines 195-197
calculateVega(d1, price, timeToExpiry) ==
  LET pdf == normalPDF(d1)
  IN  IF pdf.kind = "nan" THEN NotANumber
      ELSE Finite(((((price * pdf.v) \div FP) * SqrtT(timeToExpiry)) \div FP) \div 100)

\* lines 199-210, without the division by 365 of line 209
calculateTheta(d1, d2, price, strike, volatility, timeToExpiry, optionType) ==
  LET pdf == normalPDF(d1)
      numerator == (((price * pdf.v) \div FP) * volatility) \div FP
      t1 == IF pdf.kind = "nan" THEN NotANumber
            ELSE IF timeToExpiry = 0
              THEN (IF price = 0 \/ pdf.v = 0 \/ volatility = 0
                      THEN NotANumber ELSE Infinity(-1))
            ELSE Finite(-((numerator * FP) \div (2 * SqrtT(timeToExpiry))))
      \* normalCDF(d2) for a call, normalCDF(-d2) for a put
      cdf == normalCDF(IF optionType = "call" \/ d2.kind = "nan"
                         THEN d2 ELSE [d2 EXCEPT !.v = -@])
      carry == (((((riskFreeRate * strike) \div FP) * Discount(timeToExpiry)) \div FP)
                  * cdf.v) \div FP
      t2 == IF cdf.kind = "nan" THEN NotANumber
            ELSE Finite(IF optionType = "call" THEN -carry ELSE carry)
  IN  IF t1.kind = "nan" \/ t2.kind = "nan" THEN NotANumber
      ELSE IF t1.kind = "inf" THEN t1
      ELSE Finite(t1.v + t2.v)

\* lines 81-141, on the record of parameters
calculatePrice(params) ==
  LET d == calculateD1D2(params.currentPrice, params.strikePrice,
                         params.timeToExpiry, params.volatility)
      cdf == normalCDF(d.d2)
      raw == IF params.optionType = "call"
               THEN (Discount(params.timeToExpiry) * cdf.v) \div FP
               ELSE (Discount(params.timeToExpiry) * (FP - cdf.v)) \div FP
      \* Math.max(0, Math.min(1, midPrice)): NaN stays NaN
      midPrice == IF cdf.kind = "nan" THEN NotANumber
                  ELSE Finite(Max(0, Min(FP, raw)))
      spread == (((params.liquidityFactor * params.volatility) \div FP)
                   * SqrtT(params.timeToExpiry)) \div FP
      halfSpread == spread \div 2
  IN  [ d1 |-> d.d1, d2 |-> d.d2,
        midPrice |-> midPrice,
        bidPrice |-> IF midPrice.kind = "nan" THEN NotANumber
                     ELSE Finite(Max(0, midPrice.v - halfSpread)),
        askPrice |-> IF midPrice.kind = "nan" THEN NotANumber
                     ELSE Finite(Min(FP, midPrice.v + halfSpread)),
        timestamp |-> now,
        delta |-> calculateDelta(d.d1, params.optionType),
        gamma |-> calculateGamma(d.d1, params.currentPrice, params.volatility,
                                 params.timeToExpiry),
        theta |-> calculateTheta(d.d1, d.d2, params.currentPrice,
                                 params.strikePrice, params.volatility,
                                 params.timeToExpiry, params.optionType),
        vega |-> calculateVega(d.d1, params.currentPrice, params.timeToExpiry) ]

\* a caller asks the model for a quote
Quote(params) ==
  /\ Quiescent
  /\ event' = [op |-> "calculatePrice", params |-> params,
               quote |-> calculatePrice(params)]
  /\ UNCHANGED <<markets, pollingIntervals, listeners, handles, fetches,
                 volatilityCache, recomputes, steps>>
  /\ UNCHANGED <<subscribers, marketDataService>>
  /\ UNCHANGED ammVars

PriceNext ==
  \/ \E params \in PriceParams : Quote(params)
  \/ Settle

PriceSpec == Init /\ [][PriceNext]_vars

-----------------------------------------------------------------------------
(* The MarketDataService singleton (services/MarketDataService.js) and the *)
(* PolymarketService it loads its markets from.  A list of markets is      *)
(* known by where it came from: "empty" ([] of the constructor),           *)
(* "polymarket" (the formatted answer of the API), "mock" (the             *)
(* PolymarketService's mockMarkets) or "fallback" (the list built by       *)
(* initializeFallbackData).  awaiting holds the calls suspended at         *)
(* "await polymarketService.getMarkets()", each answered in its own task.  *)

\* the methods of the AMM class, hence of ammInstance
AmmMethods ==
  { "initialize", "getPrice", "addLiquidity", "removeLiquidity", "executeTrade",
    "initializeLiquidityPool", "calculateLiquidityFactor", "calculateSlippage",
    "initializeDemoLiquidityPools", "initializeDemoPositions",
    "getAvailableMarkets", "getMarketOptions" }

RethrowsFetchError(fetchOk) ==
  IF fetchOk THEN [settled |-> "resolved", value |-> "polymarket"]
             ELSE [settled |-> "rejected", value |-> "empty"]

\* PolymarketService.getMarkets: the try block returns the formatted answer,
\* the catch returns this.mockMarkets, so the promise always resolves
polymarketGetMarkets(fetchOk) ==
  [settled |-> "resolved", value |-> IF fetchOk THEN "polymarket" ELSE "mock"]

\* lines 30-108: the call of line 32 throws a TypeError when ammInstance has
\* no method getLiquidityPools, before anything is assigned
initializeFallbackData(service) ==
  IF "getLiquidityPools" \in AmmMethods
    THEN [threw |-> FALSE,
          service |-> [service EXCEPT !.markets = "fallback", !.initialized = TRUE]]
    ELSE [threw |-> TRUE, service |-> service]

\* lines 16-24: initialize from the answer of polymarketService.getMarkets on
AfterInitialize(service, answer) ==
  IF answer.settled = "resolved"
    THEN [threw |-> FALSE,
          service |-> [service EXCEPT !.markets = answer.value, !.initialized = TRUE]]
    ELSE initializeFallbackData(service)

\* what a task of the MarketDataService leaves alone
DataFrame == /\ UNCHANGED ammVars
             /\ UNCHANGED <<markets, pollingIntervals, listeners, handles, fetches,
                            volatilityCache, recomputes, subscribers>>

\* lines 13-15: initialize() up to its return or its await
dataInitialize ==
  /\ Quiescent
  /\ steps < MaxDataCalls
  /\ steps' = steps + 1
  /\ IF marketDataService.initialized
       THEN /\ event' = [op |-> "initialize", outcome |-> "resolved",
                         fetched |-> FALSE, fetchOk |-> FALSE]
            /\ UNCHANGED marketDataService
       ELSE /\ event' = [op |-> "initialize", outcome |-> "pending",
                         fetched |-> FALSE, fetchOk |-> FALSE]
            /\ marketDataService' =
                 [marketDataService EXCEPT !.awaiting = Append(@, "initialize")]
  /\ DataFrame

\* lines 114-120: getMarkets() up to its first await
getMarkets ==
  /\ Quiescent
  /\ steps < MaxDataCalls
  /\ steps' = steps + 1
  /\ event' = [op |-> "getMarkets", outcome |-> "pending",
               fetched |-> FALSE, fetchOk |-> FALSE]
  /\ marketDataService' =
       [marketDataService EXCEPT !.awaiting =
          Append(@, IF marketDataService.initialized
                      THEN "getMarkets" ELSE "getMarkets.initialize")]
  /\ DataFrame

\* polymarketService.getMarkets answers the i-th waiting call, which goes on:
\* initialize at lines 18-24, getMarkets at 116-126
PolymarketAnswers(i, fetchOk) ==
  /\ Quiescent
  /\ i \in DOMAIN marketDataService.awaiting
  /\ LET caller == marketDataService.awaiting[i]
         others == SubSeq(marketDataService.awaiting, 1, i - 1)
                     \o SubSeq(marketDataService.awaiting, i + 1,
                               Len(marketDataService.awaiting))
         answer == polymarketGetMarkets(fetchOk)
         done == AfterInitialize(marketDataService, answer)
     IN  IF caller = "getMarkets"
           THEN /\ event' = [op |-> "getMarkets", outcome |-> "resolved",
                             fetched |-> TRUE, fetchOk |-> fetchOk]
                /\ marketDataService' =
                     [marketDataService EXCEPT
                        !.awaiting = others,
                        !.markets = IF answer.settled = "resolved"
                                      THEN answer.value ELSE @]
           ELSE /\ event' = [op |-> "initialize",
                             outcome |-> IF done.threw THEN "rejected" ELSE "resolved",
                             fetched |-> TRUE, fetchOk |-> fetchOk]
                /\ marketDataService' =
                     [done.service EXCEPT
                        !.awaiting = IF caller = "initialize" \/ done.threw
                                       THEN others
                                       ELSE Append(others, "getMarkets")]
  /\ UNCHANGED steps
  /\ DataFrame

DataNext ==
  \/ dataInitialize
  \/ getMarkets
  \/ \E i \in 1..MaxDataCalls, fetchOk \in BOOLEAN : PolymarketAnswers(i, fetchOk)
  \/ Settle

DataSpec == Init /\ [][DataNext]_vars

-----------------------------------------------------------------------------
(* The push-driven refresh: the monitor's fetches, the engine's handler    *)
(* and the recomputes they start, with the fairness of the event loop: a   *)
(* task that is ready is run, and a promise that can settle does settle.   *)

RefreshNext ==
  \/ engineInitialize
  \/ \E id \in MarketIds : startMonitoring(id)
  \/ \E id \in MarketIds : stopMonitoring(id)
  \/ \E id \in MarketIds : IntervalFires(id)
  \/ \E id \in MarketIds, p \in FeedPrices : FetchSucceeds(id, p, NoReaction)
  \/ \E id \in MarketIds : FetchFails(id)
  \/ \E id \in MarketIds, v \in VolatilityEstimates : RecomputeSucceeds(id, v)
  \/ \E id \in MarketIds : RecomputeFails(id)
  \/ Settle

\* updateVolatilityEstimate for marketId gets its answer
RecomputeSettles(marketId) ==
  \/ \E v \in VolatilityEstimates : RecomputeSucceeds(marketId, v)
  \/ RecomputeFails(marketId)

RefreshSpec ==
  /\ Init
  /\ [][RefreshNext]_vars
  /\ WF_vars(Settle)
  /\ \A id \in MarketIds : WF_vars(RecomputeSettles(id))

-----------------------------------------------------------------------------
(* Properties *)

Pool(optionId) == liquidityPools[optionId]

\* the step is a call of one of the named operations
Called(ops) == steps' # steps /\ result'.op \in ops

\* the quotient n/d is a number in [0,1]
InUnitInterval(q) ==
  /\ q.d # 0
  /\ \/ q.d > 0 /\ 0 <= q.n /\ q.n <= q.d
     \/ q.d < 0 /\ q.n = 0

IsZeroRatio(q) == q.d # 0 /\ q.n = 0

\* C1: in every reachable state each pool's imbalanceRatio is a number in
\* [0,1], and it is 0 whenever the pool's totalVolume is 0
C1_ImbalanceRatioInUnitInterval ==
  \A id \in DOMAIN liquidityPools :
    /\ InUnitInterval(Pool(id).imbalanceRatio)
    /\ Pool(id).totalVolume = 0 => IsZeroRatio(Pool(id).imbalanceRatio)

\* C2: initializeLiquidityPool on an optionId that already has a pool, and
\* the re-initialization done by AMM.initialize, leave every existing pool
\* exactly as it was
C2_InitializeExistingIsNoOp ==
  [][ Called({"initializeLiquidityPool", "initialize"})
        => \A id \in DOMAIN liquidityPools : liquidityPools'[id] = liquidityPools[id] ]_vars

\* C3: addLiquidity, removeLiquidity and executeTrade with a negative amount
\* fail with InvalidInput and leave the pools unchanged
C3_NegativeAmountRejected ==
  [][ (Called({"addLiquidity", "removeLiquidity", "executeTrade"}) /\ result'.amount < 0)
        => (result'.error = "InvalidInput" /\ liquidityPools' = liquidityPools) ]_vars

\* C4: in every reachable state every pool has liquidity >= 0 and
\* maxOrderSize = 0.10 * liquidity
C4_LiquidityAndMaxOrderSize ==
  \A id \in DOMAIN liquidityPools :
    /\ Pool(id).liquidity >= 0
    /\ 10 * Pool(id).maxOrderSize = Pool(id).liquidity

\* C5: the executionPrice of every receipt of a successful executeTrade is a
\* number in [0.01, 0.99]
C5_ExecutionPriceInRange ==
  (result.op = "executeTrade" /\ result.error = "none")
    => /\ ~result.executionPrice.nan
       /\ 100 <= result.executionPrice.v
       /\ result.executionPrice.v <= 9900

\* C6: totalVolume = buyVolume + sellVolume in every reachable state, and a
\* successful executeTrade of amount a adds a to totalVolume and to exactly
\* one of buyVolume (buy) and sellVolume (sell)
C6_VolumeAccounting ==
  /\ [](\A id \in DOMAIN liquidityPools :
          Pool(id).totalVolume = Pool(id).buyVolume + Pool(id).sellVolume)
  /\ [][ (Called({"executeTrade"}) /\ result'.error = "none")
           => LET id == result'.optionId
                  a  == result'.amount
                  p  == liquidityPools[id]
                  q  == liquidityPools'[id]
              IN  /\ q.totalVolume = p.totalVolume + a
                  /\ IF result'.direction = "buy"
                     THEN q.buyVolume = p.buyVolume + a /\ q.sellVolume = p.sellVolume
                     ELSE q.sellVolume = p.sellVolume + a /\ q.buyVolume = p.buyVolume ]_vars

C6_Witness ==
  /\ result.op = "executeTrade" /\ result.error = "none"
  /\ result.amount > 0 /\ result.direction = "sell"
  /\ Pool(result.optionId).sellVolume > 0
  /\ Pool(result.optionId).buyVolume > 0

\* C7: executeTrade with amount > maxOrderSize fails with OrderTooLarge and
\* changes no field of any pool
C7_OrderTooLargeRejected ==
  [][ ( /\ Called({"executeTrade"})
        /\ HasPool(liquidityPools, result'.optionId)
        /\ result'.amount > liquidityPools[result'.optionId].maxOrderSize )
        => (result'.error = "OrderTooLarge" /\ liquidityPools' = liquidityPools) ]_vars

C7_Witness ==
  /\ result.op = "executeTrade" /\ result.error = "OrderTooLarge"
  /\ result.direction = "buy"
  /\ Pool(result.optionId).liquidity > 0
  /\ Pool(result.optionId).maxOrderSize > 0
  /\ result.amount > Pool(result.optionId).maxOrderSize

\* C8: removeLiquidity and executeTrade on an optionId with no pool fail with
\* the no-pool error and change nothing; a pool only ever appears through
\* addLiquidity or initializeLiquidityPool (which AMM.initialize calls)
C8_PoolNotFound ==
  /\ [][ ( /\ Called({"removeLiquidity", "executeTrade"})
           /\ ~HasPool(liquidityPools, result'.optionId) )
           => (result'.error = "NoPool" /\ liquidityPools' = liquidityPools) ]_vars
  /\ [][ DOMAIN liquidityPools' # DOMAIN liquidityPools
           => Called({"addLiquidity", "initializeLiquidityPool", "initialize"}) ]_vars

C8_Witness ==
  /\ result.error = "NoPool"
  /\ result.op = "removeLiquidity"
  /\ ~HasPool(liquidityPools, result.optionId)
  /\ \E id \in DOMAIN liquidityPools : Pool(id).liquidity > 0

\* C9: at most one pool operation is part-way through at any time, and a
\* getPrice that finds a pool reads the pool as the last completed operation
\* left it, with totalVolume = buyVolume + sellVolume
C9_AtomicPoolOperations ==
  /\ [](Cardinality(inflight) <= 1)
  /\ [][ (Called({"getPrice"}) /\ result'.sawPool)
           => /\ inflight = {}
              /\ HasPool(committed, result'.optionId)
              /\ result'.observed = committed[result'.optionId]
              /\ result'.observed.totalVolume
                   = result'.observed.buyVolume + result'.observed.sellVolume ]_vars

\* a trade is part-way through: totalVolume is updated and buyVolume is not
C9_Witness ==
  \E f \in inflight :
    /\ f.op = "executeTrade" /\ f.pc = "L112" /\ f.amount > 0
    /\ Pool(f.optionId).totalVolume # Pool(f.optionId).buyVolume + Pool(f.optionId).sellVolume
    /\ committed[f.optionId] # Pool(f.optionId)

RatioNotDecreased(q, r) ==
  (q.d > 0 /\ r.d > 0) => q.n * r.d <= r.n * q.d

\* C10: a pool, once it exists, exists in every later state, and no step
\* lowers or resets its totalVolume, buyVolume, sellVolume or imbalanceRatio
C10_PoolAndVolumesPersist ==
  [][ \A id \in DOMAIN liquidityPools :
        /\ id \in DOMAIN liquidityPools'
        /\ liquidityPools'[id].totalVolume >= liquidityPools[id].totalVolume
        /\ liquidityPools'[id].buyVolume >= liquidityPools[id].buyVolume
        /\ liquidityPools'[id].sellVolume >= liquidityPools[id].sellVolume
        /\ RatioNotDecreased(liquidityPools[id].imbalanceRatio,
                             liquidityPools'[id].imbalanceRatio) ]_vars

\* C11: removeLiquidity with amount > 0 on an existing pool returns
\* amountRemoved = min(amount, prior liquidity) and totalLiquidity =
\* prior liquidity - amountRemoved, which is the pool's new liquidity, is 0
\* when amount exceeds the prior liquidity and is never negative
C11_RemovesMinOfAmountAndLiquidity ==
  [][ (Called({"removeLiquidity"}) /\ result'.error = "none" /\ result'.amount > 0)
        => LET id == result'.optionId
               prior == Pool(id).liquidity
           IN  /\ result'.amountRemoved = Min(result'.amount, prior)
               /\ result'.totalLiquidity = prior - result'.amountRemoved
               /\ liquidityPools'[id].liquidity = result'.totalLiquidity
               /\ result'.amount > prior => result'.totalLiquidity = 0
               /\ result'.totalLiquidity >= 0 ]_vars

\* a removal that asked for more than the pool held
C11_Witness ==
  /\ result.op = "removeLiquidity" /\ result.error = "none"
  /\ result.amountRemoved > 0
  /\ result.amountRemoved < result.amount
  /\ result.totalLiquidity = 0

\* addLiquidity(id, a) immediately followed by removeLiquidity(id, a)
RoundTrip(pool, a) ==
  LET added == AddLiquidityL48(AddLiquidityL45(pool, a))
  IN  RemoveLiquidityL71(RemoveLiquidityL68(added, AmountToRemove(added, a)))

\* C12: for every existing pool and every a > 0, addLiquidity(id, a) followed
\* at once by removeLiquidity(id, a) leaves liquidity and maxOrderSize as they
\* were before the add
C12_AddThenRemoveRestores ==
  \A id \in DOMAIN liquidityPools :
    \A a \in {x \in LiquidityAmounts : x > 0} :
      /\ RoundTrip(Pool(id), a).liquidity = Pool(id).liquidity
      /\ RoundTrip(Pool(id), a).maxOrderSize = Pool(id).maxOrderSize

\* the pool is one that calls with valid arguments produce
WellFormed(pool) ==
  /\ pool.liquidity >= 0
  /\ InUnitInterval(pool.imbalanceRatio)

\* C13: getPrice returns the base midPrice and a spread at least as wide as
\* the base one: 0 <= bid <= base bid <= mid <= base ask <= ask <= 1, for
\* every base quote (those clamped at 0 or 1 too); stated here for the pools
\* that valid calls produce, a subset of "every pool state"
C13_SpreadNeverNarrower ==
  (result.op = "getPrice" /\ (result.sawPool => WellFormed(result.observed)))
    => /\ result.quote.midPrice = Num(result.base.midPrice)
       /\ ~result.quote.bidPrice.nan
       /\ ~result.quote.askPrice.nan
       /\ 0 <= result.quote.bidPrice.v
       /\ result.quote.bidPrice.v <= result.base.bidPrice
       /\ result.base.bidPrice <= result.base.midPrice
       /\ result.base.midPrice <= result.base.askPrice
       /\ result.base.askPrice <= result.quote.askPrice.v
       /\ result.quote.askPrice.v <= FP

\* the step is a task of the monitor or the volatility service, of the named kinds
Did(ops) == event = BlankEvent /\ event'.op \in ops

\* C14: a fetch that fails invokes no listener, leaves the stored snapshots as
\* they were and leaves the interval registered, so the next tick of that id
\* fetches again
C14_FailedFetchIsSilent ==
  [][ Did({"fetchFailed"})
        => /\ event'.round = << >>
           /\ markets' = markets
           /\ listeners' = listeners
           /\ recomputes' = recomputes
           /\ pollingIntervals' = pollingIntervals ]_vars

\* a fetch failed for a monitored id that has a snapshot, with a listener registered
C14_Witness ==
  /\ event.op = "fetchFailed"
  /\ Has(markets, event.marketId)
  /\ event.marketId \in pollingIntervals
  /\ Len(listeners) > 0

\* C15: calling an unsubscribe function removes the one registration its
\* addListener made and no other: a second registration of the same callback
\* stays, and a second call of the function changes nothing
C15_UnsubscribeRemovesOwnRegistration ==
  [][ Did({"unsubscribe"})
        => LET NotMine(e) == e.reg # event'.reg
           IN  listeners' = SelectSeq(listeners, NotMine) ]_vars

\* C16: when a fetch succeeds the new snapshot is stored before any listener
\* is invoked: every listener of the round finds, in the monitor, the snapshot
\* it is being told about
C16_StoredBeforeNotified ==
  event.op = "fetched"
    => /\ Has(markets, event.marketId)
       /\ markets[event.marketId] = event.price
       /\ \A i \in DOMAIN event.round :
            /\ event.round[i].price = event.price
            /\ event.round[i].stored = event.price

\* a snapshot was replaced by a different one and a listener was told
C16_Witness ==
  /\ event.op = "fetched"
  /\ event.hadPrevious
  /\ event.previousPrice # event.price
  /\ Len(event.round) > 0

\* C17: an update is "significant-change" exactly when a snapshot was stored
\* before it and the new price is more than 0.05 away from that one; a first
\* fetch, and a move of exactly 0.05, are "regular"
C17_SignificantChange ==
  [][ Did({"fetched"})
        => LET id == event'.marketId
               far == /\ Has(markets, id)
                      /\ \/ event'.price - markets[id] > SignificantMove
                         \/ markets[id] - event'.price > SignificantMove
           IN  /\ event'.updateType = (IF far THEN "significant-change" ELSE "regular")
               /\ \A i \in DOMAIN event'.round :
                    event'.round[i].updateType = event'.updateType ]_vars

\* a move of exactly 0.05 was told to a listener as regular
C17_Witness ==
  /\ event.op = "fetched"
  /\ event.hadPrevious
  /\ Abs(event.price - event.previousPrice) = SignificantMove
  /\ event.updateType = "regular"
  /\ Len(event.round) > 0

\* C18: stopMonitoring of an id that is not monitored (never started, or
\* already stopped) changes nothing in the monitor: not the intervals, not
\* the snapshots, not the listeners (the code has no throw on that path)
C18_StopIsIdempotent ==
  [][ (Did({"stopMonitoring"}) /\ event'.marketId \notin pollingIntervals)
        => /\ pollingIntervals' = pollingIntervals
           /\ markets' = markets
           /\ listeners' = listeners
           /\ fetches' = fetches ]_vars

\* an id with a stored snapshot is stopped a second time
C18_Witness ==
  /\ event.op = "stopMonitoring"
  /\ ~event.wasMonitored
  /\ Has(markets, event.marketId)
  /\ Len(listeners) > 0

\* C19: getDynamicVolatility can run whatever recomputes are in flight, and
\* it works from the cache as it is at the call: the cached value if there
\* is one, 0.30 if not; it writes nothing to the cache
C19_ReadNeverWaits ==
  /\ [](\A id \in MarketIds, t \in TimesToExpiry :
          (Quiescent /\ steps < MaxVolEvents) => ENABLED getDynamicVolatility(id, t))
  /\ [][ Did({"getDynamicVolatility"})
          => LET id == event'.marketId
             IN  /\ event'.baseVol = (IF Has(volatilityCache, id)
                                      THEN volatilityCache[id] ELSE DefaultVolatility)
                 /\ event'.value = applyTermStructure(event'.baseVol, event'.timeToExpiry)
                 /\ volatilityCache' = volatilityCache ]_vars

\* a read served from the cache while a recompute of that id was in flight
C19_Witness ==
  /\ event.op = "getDynamicVolatility"
  /\ event.pending > 0
  /\ Has(volatilityCache, event.marketId)
  /\ event.baseVol = volatilityCache[event.marketId]
  /\ event.baseVol # DefaultVolatility

\* C20: a recompute that succeeds writes its value over the entry of its own
\* id (the last one to finish wins), a recompute that fails writes nothing,
\* and neither touches the entry of another id
C20_CacheLastWriteWins ==
  [][ /\ Did({"recomputed"})
          => LET id == event'.marketId
             IN  /\ DOMAIN volatilityCache' = DOMAIN volatilityCache \cup {id}
                 /\ volatilityCache'[id] = event'.value
                 /\ \A k \in DOMAIN volatilityCache \ {id} :
                      volatilityCache'[k] = volatilityCache[k]
      /\ Did({"recomputeFailed"}) => volatilityCache' = volatilityCache ]_vars

\* a later recompute replaced an entry by a different value while another id
\* had an entry too
C20_Witness ==
  /\ event.op = "recomputed"
  /\ event.hadPrevious
  /\ event.baseVol # event.value
  /\ \E k \in DOMAIN volatilityCache : k # event.marketId

\* C22: applyTermStructure(baseVol, T) is baseVol * (1 + (0.1 - T) * 3) for
\* every T < 0.1, T = 0 included (factor 1.3), baseVol * (1 - min(0.3,
\* (T - 0.5) * 0.3)) for T > 0.5, and baseVol in between
C22_TermStructure ==
  event.op = "getDynamicVolatility"
    => LET T == event.timeToExpiry
           baseVol == event.baseVol
       IN  event.value =
             (IF T < 1000 THEN (baseVol * (FP + (1000 - T) * 3)) \div FP
              ELSE IF T > 5000
                   THEN (baseVol * (FP - Min(3000, ((T - 5000) * 3) \div 10))) \div FP
              ELSE baseVol)

\* C27: while an id is not monitored (stopped and not started again) no
\* step changes its stored snapshot and no listener is told about it, a
\* fetch that was in flight at the stop included
C27_NothingAfterStop ==
  [][ \A id \in MarketIds :
        (id \notin pollingIntervals /\ id \notin pollingIntervals')
          => /\ Has(markets', id) = Has(markets, id)
             /\ Has(markets, id) => markets'[id] = markets[id]
             /\ ~(Did({"fetched"}) /\ event'.marketId = id
                                   /\ Len(event'.round) > 0) ]_vars

\* C30: getPrice, addLiquidity, removeLiquidity and executeTrade leave the
\* lastPrice of every existing pool as it is, executeTrade leaves liquidity
\* and maxOrderSize too, and in every state the stored quote of a pool is
\* the synthetic one of its creation, {0.95 p, p, 1.05 p}
C30_StoredQuoteFrozen ==
  /\ [](\A id \in DOMAIN liquidityPools :
          /\ Pool(id).lastPrice.bidPrice = (Pool(id).lastPrice.midPrice * 95) \div 100
          /\ Pool(id).lastPrice.askPrice = (Pool(id).lastPrice.midPrice * 105) \div 100)
  /\ [][ Called({"getPrice", "addLiquidity", "removeLiquidity", "executeTrade"})
          => \A id \in DOMAIN liquidityPools :
               /\ liquidityPools'[id].lastPrice = Pool(id).lastPrice
               /\ result'.op = "executeTrade"
                    => /\ liquidityPools'[id].liquidity = Pool(id).liquidity
                       /\ liquidityPools'[id].maxOrderSize = Pool(id).maxOrderSize ]_vars

\* a trade was executed against a pool with a non-zero stored quote
C30_Witness ==
  /\ result.op = "executeTrade" /\ result.error = "none"
  /\ result.amount > 0
  /\ HasPool(liquidityPools, result.optionId)
  /\ Pool(result.optionId).lastPrice.midPrice > 0
  /\ Pool(result.optionId).totalVolume >= result.amount

\* the engine's handler is registered with the monitor
EngineInitialized == \E i \in DOMAIN listeners : listeners[i].callback = EngineCallback

\* how often the registration reg was invoked in a round of the engine
Invocations(round, reg) == Cardinality({i \in DOMAIN round : round[i].reg = reg})

\* C28: once the engine is initialized, however often, a successful fetch
\* invokes every callback registered with subscribeToUpdates exactly once
\* and starts exactly one volatility recompute
C28_OnceForEveryFetch ==
  [][ (Did({"fetched"}) /\ EngineInitialized)
        => /\ recomputes'[event'.marketId] = recomputes[event'.marketId] + 1
           /\ \A i \in DOMAIN subscribers :
                Invocations(event'.engineRound, subscribers[i].reg) = 1 ]_vars

\* C29: when an unsubscribe function is called by a listener in the middle
\* of a round, the callback it removes is not invoked later in that round
\* (and, being off the list, in no later round)
C29_NoCallAfterUnsubscribe ==
  [][ (Did({"fetched"}) /\ event'.unsubAt > 0)
        => /\ \A j \in DOMAIN event'.round :
                j > event'.unsubAt => event'.round[j].callback # event'.unsubCallback
           /\ \A j \in DOMAIN listeners' :
                listeners'[j].callback # event'.unsubCallback ]_vars

\* C25: when the monitor delivers a significant-change update to the engine,
\* a recompute of that instrument is started; every started recompute gets
\* its answer, and if it succeeded the cache entry of the instrument is its
\* result; recomputes are started by delivered updates and cache misses
\* only, never by a timer of the engine
C25_PushDrivenRefresh ==
  /\ [][ (Did({"fetched"}) /\ EngineInitialized
                           /\ event'.updateType = "significant-change")
          => recomputes'[event'.marketId] > recomputes[event'.marketId] ]_vars
  /\ \A id \in MarketIds :
       (recomputes[id] > 0)
         ~> (event.op \in {"recomputed", "recomputeFailed"} /\ event.marketId = id)
  /\ [][ Did({"recomputed"})
          => /\ Has(volatilityCache', event'.marketId)
             /\ volatilityCache'[event'.marketId] = event'.value ]_vars
  /\ [][ \A id \in MarketIds :
          recomputes'[id] > recomputes[id]
            => Did({"fetched", "getDynamicVolatility", "handleMarketUpdate"}) ]_vars

\* a significant change was delivered to the engine and its recompute is in flight
C25_Witness ==
  /\ event.op = "fetched"
  /\ event.updateType = "significant-change"
  /\ EngineInitialized
  /\ recomputes[event.marketId] > 0

\* the observations of a history whose price is positive
Usable(data) == Cardinality({k \in DOMAIN data : data[k].price > 0})

\* C21: for every price history and both methods the estimate is a number in
\* [0.10, 1.00], and it is the default 0.30 when fewer than 2 observations
\* have a positive price
C21_EstimateInRange ==
  event.op = "calculateVolatility"
    => /\ event.value.kind = "num"
       /\ event.value.v >= FP \div 10
       /\ event.value.v <= FP
       /\ (Usable(event.data) < 2 => event.value.v = 3000)

\* C23: when time-to-expiry is 0 or volatility is 0 the model uses
\* d1 = d2 = 0 and returns gamma = 0, vega = 0 and theta = 0, every value of
\* the quote being a finite number
C23_DegenerateInputs ==
  (/\ event.op = "calculatePrice"
   /\ (event.params.timeToExpiry = 0 \/ event.params.volatility = 0))
    => /\ event.quote.d1 = Finite(0)
       /\ event.quote.d2 = Finite(0)
       /\ event.quote.gamma = Finite(0)
       /\ event.quote.vega = Finite(0)
       /\ event.quote.theta = Finite(0)
       /\ \A f \in {"midPrice", "bidPrice", "askPrice", "delta"} :
            event.quote[f].kind = "num"

\* C24: for T > 0, sigma > 0 and liquidityFactor >= 0 the quote satisfies
\* 0 <= bidPrice <= midPrice <= askPrice <= 1
C24_BidMidAskOrdered ==
  (/\ event.op = "calculatePrice"
   /\ event.params.timeToExpiry > 0
   /\ event.params.volatility > 0
   /\ event.params.liquidityFactor >= 0)
    => /\ \A f \in {"midPrice", "bidPrice", "askPrice"} : event.quote[f].kind = "num"
       /\ 0 <= event.quote.bidPrice.v
       /\ event.quote.bidPrice.v <= event.quote.midPrice.v
       /\ event.quote.midPrice.v <= event.quote.askPrice.v
       /\ event.quote.askPrice.v <= FP

=============================================================================
